---- MODULE Spec2Model ----
(***************************************************************************)
(* Model of the agent scheduler of the DeFAI agent engine                  *)
(* (agent-engine/core/agent_manager.py) together with the decision and     *)
(* execution providers it calls (utils/ml_interface.py,                    *)
(* core/strategy_engine.py).                                               *)
(*                                                                         *)
(* The program is a single asyncio event loop: code between two awaits is  *)
(* atomic, so every action below runs one coroutine from one suspension    *)
(* point to its next one.  Every await of the scheduler is taken as a      *)
(* point where another coroutine may run.                                  *)
(*                                                                         *)
(* The persistence calls Agent.get, agent.save and execution.save are      *)
(* calls to the database ("Assume DB model exists"): each of them either   *)
(* returns or raises.  With the signatures of models/agent.py and          *)
(* models/strategy.py, which take a session, they raise on every call;     *)
(* that behaviour is the branch of the model in which they raise.          *)
(*                                                                         *)
(* Time is counted in minutes.                                             *)
(*                                                                         *)
(* Three further parts stand on their own: the multi-hop executor of       *)
(* core/strategy_engine.py (variable hop, specification SpecHop), the      *)
(* agent endpoints of the backend API, backend/app/routes.py (variables    *)
(* store, req and resp, specification SpecApi), and the agent endpoints    *)
(* of the agent engine, agent-engine/api/agents.py (variable engine,       *)
(* specifications SpecEngine and SpecEngineLive).                          *)
(***************************************************************************)
EXTENDS Integers, Sequences, FiniteSets, TLC

\* ------------------------------------------------------------------ bounds
\* the clock stops at MaxTime
MaxTime == 1
\* the longest list of steps of a multi-hop decision
MaxSteps == 3
\* the number of rows ever inserted into the agents table
MaxRows == 2

\* ---------------------------------------------------------- program constants
\* The clock counts whole minutes: every delay the scheduler writes to an
\* agent is a number of minutes.  The loop's sleeps are shorter than one
\* unit, so a sleep may return before the clock shows a later minute.
SecondsPerUnit == 60
\* asyncio.sleep(10) at the end of a tick
SleepSeconds == 10
\* asyncio.sleep(30) after an exception caught in the loop
ErrorSleepSeconds == 30
\* timedelta(minutes=1) in create_agent and activate_agent
ActivateDelay == 1
\* timedelta(minutes=30) in the except branch of _execute_agent_strategy
FaultBackoff == 30

SleepInterval == SleepSeconds \div SecondsPerUnit
ErrorSleep == ErrorSleepSeconds \div SecondsPerUnit

AgentIds == {"a1", "a2", "a3"}
\* the ids the callers of the lifecycle operations pass
CalledIds == {"a1", "a2"}
PositionIds == {"p1", "p2"}

\* Optional[datetime] = None
NoTime == -1

\* AgentStatus
CREATED == "created"
ACTIVE == "active"
PAUSED == "paused"
STOPPED == "stopped"
ERROR == "error"
AgentStatus == {CREATED, ACTIVE, PAUSED, STOPPED, ERROR}

\* "agent_id not in self.active_agents"
Absent == [status |-> "absent"]

\* AgentState(agent_id, status, last_execution, next_execution,
\*            execution_count, total_profit, current_positions)
AgentState(st, last, next, cnt, profit, pos) ==
    [status |-> st, last_execution |-> last, next_execution |-> next,
     execution_count |-> cnt, total_profit |-> profit, current_positions |-> pos]

VARIABLES
    now,            \* datetime.utcnow()
    running,        \* AgentManager.running
    active_agents,  \* AgentManager.active_agents: id -> AgentState or Absent
    order,          \* insertion order of the keys of active_agents
    loop,           \* the run_agent_loop task
    cycle,          \* per agent: the _execute_agent_strategy coroutine
    inflight,       \* per agent: number of cycles dispatched and not completed
    stopT,          \* per agent: the stop_agent coroutine
    shut,           \* the AgentManager.stop() coroutine
    ev,             \* what the step just taken returned or completed
    pool,           \* the agent ids the callers of create_agent use
    hop,            \* a _execute_multi_hop_strategy coroutine
    store,          \* backend: the agents table and its id sequence
    req,            \* backend: per user, the request being handled
    resp,           \* backend: the response just sent
    engine          \* agent-engine API: its agents table, the requests
                    \* being handled and the response just sent

vars == <<now, running, active_agents, order, loop, cycle, inflight,
          stopT, shut, ev, pool, hop, store, req, resp, engine>>

Registered(a) == active_agents[a] # Absent

\* The observable outcome of the step just taken (a returned value, a
\* completed cycle); NoEvent after every step that returns nothing.
NoEvent == [kind |-> "none"]

\* ------------------------------------------------------------ MLInterface
\* Yields are counted in thousandths, confidence and risk in hundredths.
StrategyTypes == {"swap", "lending", "yield_farming", "multi_hop"}
RiskLevels == {"low", "medium", "high"}
\* raw_decision['pred'] as returned by the AI service
PredValues == {0, 5, 15, 30, 70}
\* {"pred": 0.005, ...}: the response substituted when the AI service fails
DefaultPred == 5
\* agent_config.get('min_profit_threshold', 0.01)
MinProfitThreshold == 10

Min(x, y) == IF x <= y THEN x ELSE y

\* The market context and agent configuration a decision is computed from:
\* portfolio_value, sol_balance, number of prices, number of protocols.
Features == [pv : {0, 200}, sol : {0, 2, 6}, nprices : {0, 2},
             nprotocols : {0, 3}, risk_level : RiskLevels]
\* input_features is missing from the substituted response: every .get()
\* of _enhance_decision falls back to its default.
NoFeatures(rl) == [pv |-> 0, sol |-> 0, nprices |-> 0, nprotocols |-> 0,
                   risk_level |-> rl]

RiskLevelToScore(rl) ==
    CASE rl = "low" -> 20 [] rl = "medium" -> 50 [] rl = "high" -> 80

\* strategy type and whether its parameters carry a non-zero amount
DetermineStrategyType(pred, f, hasFeatures) ==
    LET tol == IF hasFeatures THEN RiskLevelToScore(f.risk_level) ELSE 50 IN
    IF pred > 50 /\ tol > 70
      THEN [strategy_type |-> "multi_hop", hold |-> FALSE,
            amount |-> 0, actionable |-> f.sol > 0]
    ELSE IF pred > 20 /\ f.sol > 5
      THEN [strategy_type |-> "yield_farming", hold |-> FALSE,
            amount |-> f.sol, actionable |-> TRUE]
    ELSE IF pred > 10 /\ f.pv > 100
      THEN [strategy_type |-> "lending", hold |-> FALSE,
            amount |-> f.sol, actionable |-> f.sol > 0]
    ELSE IF f.sol > 1 /\ f.nprices >= 2
      THEN [strategy_type |-> "swap", hold |-> FALSE,
            amount |-> f.sol, actionable |-> TRUE]
    ELSE [strategy_type |-> "swap", hold |-> TRUE,
          amount |-> 0, actionable |-> FALSE]

CalculateConfidence(pred, f) ==
    Min(Min(pred, 80) + (IF f.pv > 100 THEN 10 ELSE 0)
                      + (IF f.nprotocols >= 3 THEN 10 ELSE 0), 95)

BaseRisk(t) ==
    CASE t = "swap" -> 20 [] t = "lending" -> 30
      [] t = "yield_farming" -> 60 [] t = "multi_hop" -> 80

\* amounts are lamports, max_investment is about 1000: any non-zero
\* amount saturates min(amount / max_investment, 0.3)
AssessStrategyRisk(t, amount) ==
    Min(BaseRisk(t) + (IF amount > 0 THEN 30 ELSE 0), 100)

\* no delay when there is no opportunity
DetermineExecutionTimingNow(pred, confidence) ==
    IF pred > 50 /\ confidence > 80 THEN 1
    ELSE IF pred > 20 /\ confidence > 60 THEN 5
    ELSE IF pred > 10 THEN 15
    ELSE 0

DetermineExecutionTiming(pred, confidence) ==
    IF pred > 50 /\ confidence > 80 THEN 1
    ELSE IF pred > 20 /\ confidence > 60 THEN 5
    ELSE IF pred > 10 THEN 15
    ELSE 30

ShouldExecuteStrategy(pred, confidence, risk, rl) ==
    /\ ~(pred < MinProfitThreshold)
    /\ ~(confidence < 50)
    /\ ~(risk > RiskLevelToScore(rl) + 20)

EnhanceDecision(pred, f, hasFeatures) ==
    LET g    == IF hasFeatures THEN f ELSE NoFeatures(f.risk_level)
        st   == DetermineStrategyType(pred, g, hasFeatures)
        conf == CalculateConfidence(pred, g)
        risk == AssessStrategyRisk(st.strategy_type, st.amount)
    IN [strategy_type |-> st.strategy_type,
        hold |-> st.hold,
        actionable |-> st.actionable,
        should_execute |-> ShouldExecuteStrategy(pred, conf, risk, f.risk_level),
        next_check_minutes |-> DetermineExecutionTiming(pred, conf),
        source |-> "enhanced"]

SafeDefaultDecision ==
    [strategy_type |-> "swap", hold |-> TRUE, actionable |-> FALSE,
     should_execute |-> FALSE, next_check_minutes |-> 60, source |-> "default"]

\* the safe default decision returned whenever the predictor call fails
GetStrategyDecisionSafeDefault(pred, f, aiOk, raised) ==
    IF raised \/ ~aiOk THEN SafeDefaultDecision
    ELSE EnhanceDecision(pred, f, TRUE)

\* get_strategy_decision: aiOk = the /predict call answered 200,
\* raised = an exception reached the outer except of get_strategy_decision
GetStrategyDecision(pred, f, aiOk, raised) ==
    IF raised THEN SafeDefaultDecision
    ELSE IF aiOk THEN EnhanceDecision(pred, f, TRUE)
    ELSE EnhanceDecision(DefaultPred, f, FALSE)

\* every decision get_strategy_decision can return for a full market
\* context, and for the empty context {} of a failed _gather_market_data
Decisions ==
    {GetStrategyDecision(p, f, ok, r) :
        p \in PredValues, f \in Features, ok \in BOOLEAN, r \in BOOLEAN}
DecisionsEmptyMarket ==
    {GetStrategyDecision(p, NoFeatures(rl), ok, r) :
        p \in PredValues, rl \in RiskLevels, ok \in BOOLEAN, r \in BOOLEAN}

\* How get_strategy_decision came to its decision:
\*   cached   - a decision of the cache was returned, no call was made
\*   answered - the /predict call answered 200
\*   failed   - the /predict call answered another status or raised (a
\*              timeout included) and nothing else went wrong
\*   raised   - an exception reached the outer except branch
PredictorOutcomes == {"cached", "answered", "failed", "raised"}

\* the decisions get_strategy_decision can return for a market context
\* ("ok", or "empty" for the {} of a failed _gather_market_data)
EmptyFeatures == {NoFeatures(rl) : rl \in RiskLevels}
DecisionsAnswered ==
    {GetStrategyDecision(p, f, TRUE, FALSE) : p \in PredValues, f \in Features}
DecisionsAnsweredEmpty ==
    {GetStrategyDecision(p, f, TRUE, FALSE) :
        p \in PredValues, f \in EmptyFeatures}
DecisionsFailed ==
    {GetStrategyDecision(p, f, FALSE, FALSE) : p \in PredValues, f \in Features}
DecisionsRaised ==
    {GetStrategyDecision(p, f, ok, TRUE) :
        p \in PredValues, f \in Features, ok \in BOOLEAN}

DecisionsFor(market, outcome) ==
    LET answered == IF market = "empty" THEN DecisionsAnsweredEmpty
                    ELSE DecisionsAnswered
    IN CASE outcome = "answered" -> answered
         [] outcome = "failed" -> DecisionsFailed
         [] outcome = "cached" -> answered \cup DecisionsFailed
         [] outcome = "raised" -> DecisionsRaised

\* --------------------------------------------------------- StrategyEngine
\* result.get('profit', 0) of a swap, in tenths of a currency unit
ProfitValues == {0, 25}

FailedResult == [success |-> FALSE, profit |-> 0]

\* What the strategy executor registered for the decision returns, and
\* whether it reached a chain action of SolanaClientManager:
\*   chain   - the executor called solana_client.execute_*
\*   txOk    - the chain action reported success
\*   p       - the profit computed by _calculate_swap_profit
StrategyExecutor(d, chain, txOk, p) ==
    IF ~d.actionable \/ ~chain
      THEN [success |-> FALSE, profit |-> 0, chain |-> FALSE]
    ELSE IF d.strategy_type = "swap"
      THEN [success |-> txOk, profit |-> p, chain |-> TRUE]
    ELSE IF d.strategy_type = "multi_hop"
      THEN [success |-> txOk, profit |-> IF txOk THEN p ELSE 0, chain |-> TRUE]
    ELSE [success |-> txOk, profit |-> 0, chain |-> TRUE]

\* execute_strategy: the executor's result, unless recording the
\* execution raises, which the except branch turns into a failed result.
\* saved, acted and realized record what happened for the observer:
\* whether execution.save() returned, and the success and the profit the
\* executor had reported.
ExecuteStrategy(d, chain, txOk, p, saveOk) ==
    LET r == StrategyExecutor(d, chain, txOk, p) IN
    IF saveOk
      THEN [success |-> r.success, profit |-> r.profit, chain |-> r.chain,
            saved |-> TRUE, acted |-> r.success, realized |-> r.profit]
      ELSE [success |-> FALSE, profit |-> 0, chain |-> r.chain,
            saved |-> FALSE, acted |-> r.success, realized |-> r.profit]

\* -------------------------------------------- backend API (app/routes.py)
\* Two authenticated users (get_current_user resolved their tokens).
Users == {"A", "B"}
\* agents.id is an autoincrement primary key: ids are handed out in
\* sequence and never again after a delete
RowIds == 1..MaxRows
\* AgentCreate.name / AgentUpdate.name
NameValues == {"n0", "n1"}
\* AgentUpdate() without any field set
NoUpdate == "unset"

\* scalar_one_or_none() found no row
NoRow == [user_id |-> "none"]
AgentRow(u, name) == [user_id |-> u, name |-> name]

EmptyStore == [rows |-> [i \in RowIds |-> NoRow], last_id |-> 0]
IdleReq == [pc |-> "idle"]
NoResp == [kind |-> "none"]

\* the response to a request of user u
Response(u, op, id, status) ==
    [kind |-> "http", user |-> u, op |-> op, id |-> id, status |-> status,
     before |-> store.rows]

\* the test on the owner left out
AuthorizedAnyUser(agent, u) == agent # NoRow

\* "if not agent or agent.user_id != current_user.id: raise 404"
Authorized(agent, u) == agent # NoRow /\ agent.user_id = u

ApiFrame ==
    UNCHANGED <<now, running, active_agents, order, loop, cycle, inflight,
                stopT, shut, ev, pool, hop, engine>>

\* POST /agents: repo.create inserts a row owned by the caller
ApiCreate(u, name) ==
    /\ req[u].pc = "idle"
    /\ store.last_id < MaxRows
    /\ LET id == store.last_id + 1 IN
       /\ store' = [rows |-> [store.rows EXCEPT ![id] = AgentRow(u, name)],
                    last_id |-> id]
       /\ resp' = Response(u, "create", id, 200)
    /\ UNCHANGED req
    /\ ApiFrame

\* GET /agents/{agent_id}
ApiGet(u, id) ==
    /\ req[u].pc = "idle"
    /\ resp' = Response(u, "get", id,
                        IF Authorized(store.rows[id], u) THEN 200 ELSE 404)
    /\ UNCHANGED <<store, req>>
    /\ ApiFrame

\* PUT and DELETE /agents/{agent_id} up to the await of the statement that
\* writes: get_by_id, the test on the owner, and for PUT the test on the
\* fields that are set
ApiFetch(u, op, id, data) ==
    /\ req[u].pc = "idle"
    /\ op \in {"update", "delete"}
    /\ (op = "delete") => (data = NoUpdate)
    /\ IF ~Authorized(store.rows[id], u)
         THEN /\ resp' = Response(u, op, id, 404)
              /\ UNCHANGED req
       ELSE IF op = "update" /\ data = NoUpdate
         THEN /\ resp' = Response(u, op, id, 200)
              /\ UNCHANGED req
       ELSE /\ req' = [req EXCEPT ![u] = [pc |-> "write", op |-> op,
                                           id |-> id, data |-> data]]
            /\ resp' = NoResp
    /\ UNCHANGED store
    /\ ApiFrame

\* repo.update / repo.delete: the statement acts on the row with that id,
\* if there still is one; update_agent answers with the row read again
ApiWrite(u) ==
    LET r == req[u]
        row == store.rows[r.id]
    IN /\ r.pc = "write"
       /\ store' = IF row = NoRow THEN store
                    ELSE IF r.op = "delete"
                      THEN [store EXCEPT !.rows[r.id] = NoRow]
                    ELSE [store EXCEPT !.rows[r.id].name = r.data]
       /\ resp' = Response(u, r.op, r.id,
                           IF r.op = "update" /\ row = NoRow THEN 500 ELSE 200)
       /\ req' = [req EXCEPT ![u] = IdleReq]
       /\ ApiFrame

\* ------------------------------------- agent-engine API (api/agents.py)
\* The agents table of the agent engine.  Every request has a session of
\* its own (get_db_session): Agent.get gives it a copy of the row, the
\* handler tests and changes that copy, and the commit of agent.save
\* writes the columns whose value the handler changed.  The database
\* answers every statement.
\*
\* Agent.id is a uuid4 string
EngineIds == {"g1", "g2"}
\* the connections whose requests are handled at the same time
EngineClients == {"c1", "c2"}
\* the user of the requests that create agents; the requests on an agent
\* come from any user
EngineOwners == {"A"}
\* wallet_address: Optional[str] = None
NoWallet == "none"
\* scalar_one_or_none() found no row
NoAgent == [owner_id |-> "none"]
\* Agent(..., owner_id=current_user): status defaults to CREATED and
\* wallet_address to None
EngineAgent(u) == [owner_id |-> u, status |-> CREATED, wallet_address |-> NoWallet]

EngineOps == {"update", "start", "stop", "pause", "delete"}

EmptyEngine ==
    [agents |-> [i \in EngineIds |-> NoAgent],
     req |-> [c \in EngineClients |-> IdleReq],
     resp |-> NoResp]

\* The record of an agent that AgentManager.create_agent gave a wallet
\* (agent_manager.py line 62) and saved.
SeededEngine ==
    [EmptyEngine EXCEPT
       !.agents["g1"] = [owner_id |-> "A", status |-> CREATED,
                         wallet_address |-> "w1"]]

\* the response to a request: read is the row Agent.get returned to it,
\* before the table as it was when the response was decided
EngineResponse(c, u, op, id, status, read) ==
    [kind |-> "http", client |-> c, user |-> u, op |-> op, id |-> id,
     status |-> status, read |-> read, before |-> engine.agents]

\* the test on the wallet left out
CanStartWithoutWallet(agent) ==
    agent.status \in {CREATED, PAUSED, STOPPED}

\* start_agent, lines 230-241
CanStart(agent) ==
    /\ agent.status \in {CREATED, PAUSED, STOPPED}
    /\ agent.wallet_address # NoWallet

\* pause_agent, line 338
CanPause(agent) == agent.status = ACTIVE

\* the status a handler assigns through update_status; update_agent sets
\* fields of AgentUpdate only, none of which is modelled
NewStatus(op, agent) ==
    CASE op = "start" -> ACTIVE
      [] op = "pause" -> PAUSED
      [] op \in {"stop", "delete"} -> STOPPED
      [] OTHER -> agent.status

EngineFrame ==
    UNCHANGED <<now, running, active_agents, order, loop, cycle, inflight,
                stopT, shut, ev, pool, hop, store, req, resp>>

\* POST /: the row is inserted by the commit of agent.save
EngineCreate(c, u, id) ==
    /\ engine.req[c].pc = "idle"
    /\ engine.agents[id] = NoAgent
    /\ engine' = [engine EXCEPT
                    !.agents[id] = EngineAgent(u),
                    !.resp = EngineResponse(c, u, "create", id, 201, NoAgent)]
    /\ EngineFrame

\* A request on an agent from Agent.get to the await of the commit: 404
\* without a row, 403 for another user's agent, 400 when start or pause
\* does not accept the status it read
EngineFetch(c, u, op, id) ==
    LET agent == engine.agents[id]
        answer(code) ==
            [engine EXCEPT !.resp = EngineResponse(c, u, op, id, code, agent)]
    IN /\ engine.req[c].pc = "idle"
       /\ engine' =
            IF agent = NoAgent THEN answer(404)
            ELSE IF agent.owner_id # u THEN answer(403)
            ELSE IF op = "start" /\ ~CanStart(agent) THEN answer(400)
            ELSE IF op = "pause" /\ ~CanPause(agent) THEN answer(400)
            ELSE [engine EXCEPT
                    !.req[c] = [pc |-> "write", user |-> u, op |-> op,
                                id |-> id, read |-> agent],
                    !.resp = NoResp]
       /\ EngineFrame

\* The commit of agent.save: the status is written when the handler
\* assigned a value other than the one it had read.  delete_agent calls
\* update_status twice for an agent it read as active (lines 181-191);
\* its second commit finds the status already assigned.
EngineWrite(c) ==
    LET r == engine.req[c]
        new == NewStatus(r.op, r.read)
        again == r.op = "delete" /\ r.pc = "write" /\ r.read.status = ACTIVE
    IN /\ r.pc \in {"write", "write_again"}
       /\ engine' =
            [engine EXCEPT
               !.agents[r.id].status =
                    IF r.pc = "write" /\ new # r.read.status THEN new ELSE @,
               !.req[c] = IF again THEN [r EXCEPT !.pc = "write_again"]
                          ELSE IdleReq,
               !.resp = IF again THEN NoResp
                        ELSE EngineResponse(c, r.user, r.op, r.id, 200, r.read)]
       /\ EngineFrame

\* ------------------------------------------ _execute_multi_hop_strategy
\* The kinds of entries of decision['steps']: a step whose strategy_type
\* is in the registry and reports a profit (swap) or none (lending), a
\* step whose strategy_type is missing or not registered, and an entry
\* that is not a dict, for which step.get raises.
StepKinds == {"swap", "lending", "unknown", "malformed"}
StepRegistry == {"swap", "lending"}
\* profits reported by a step, in tenths; a swap whose transaction failed
\* has output_amount 0 and reports the value it put in as a loss
StepProfits == {-20, 0, 25}

RECURSIVE SeqsUpTo(_, _)
SeqsUpTo(S, n) ==
    IF n = 0 THEN {<<>>}
    ELSE LET shorter == SeqsUpTo(S, n - 1) IN
         shorter \cup {Append(q, x) : q \in shorter, x \in S}

IdleHop == [pc |-> "idle"]

\* the result of the executor registered for a step
StepExecutor(kind, ok, p) ==
    IF kind = "swap" THEN [success |-> ok, profit |-> p]
    ELSE [success |-> ok, profit |-> 0]

\* the sequence went on after a step that reported failure
StepAbortsNever(r) == FALSE

\* "if not step_result.get('success', False): all_successful = False; break"
StepAborts(r) == ~r.success

\* the return statement after the for loop
HopReturn(h) ==
    [h EXCEPT !.pc = "done",
              !.ret = [success |-> h.all_successful,
                       completed_steps |-> Len(h.results),
                       total_steps |-> Len(h.steps),
                       profit |-> h.total_profit]]

\* the except branch: {'success': False, 'error': str(e)}
HopRaise(h) ==
    [h EXCEPT !.pc = "done",
              !.ret = [success |-> FALSE, completed_steps |-> -1,
                       total_steps |-> -1, profit |-> 0]]

\* the for loop from its next() call up to the await of a step executor
HopAdvance(h) ==
    IF h.i > Len(h.steps) THEN HopReturn(h)
    ELSE IF h.steps[h.i] = "malformed" THEN HopRaise(h)
    ELSE IF h.steps[h.i] \notin StepRegistry
      THEN HopReturn([h EXCEPT !.all_successful = FALSE])
    ELSE [h EXCEPT !.pc = "running", !.log = Append(@, h.i)]

\* _execute_multi_hop_strategy is called with a decision
HopStart(steps) ==
    /\ hop.pc \in {"idle", "done"}
    /\ hop' = LET h == [pc |-> "running", steps |-> steps, i |-> 1,
                        results |-> <<>>, total_profit |-> 0,
                        all_successful |-> TRUE, log |-> <<>>,
                        ret |-> [success |-> FALSE, completed_steps |-> -1,
                                 total_steps |-> -1, profit |-> 0]]
              IN IF steps = <<>> THEN HopRaise(h) ELSE HopAdvance(h)
    /\ UNCHANGED <<now, running, active_agents, order, loop, cycle, inflight,
                   stopT, shut, ev, pool, store, req, resp, engine>>

\* the awaited step executor returns
HopStep(ok, p) ==
    /\ hop.pc = "running"
    /\ (ok \/ p <= 0)
    /\ hop' = LET r == StepExecutor(hop.steps[hop.i], ok, p)
                  h == [hop EXCEPT !.results = Append(@, r)]
              IN IF StepAborts(r)
                   THEN HopReturn([h EXCEPT !.all_successful = FALSE])
                   ELSE HopAdvance([h EXCEPT !.total_profit = @ + r.profit,
                                             !.i = @ + 1])
    /\ UNCHANGED <<now, running, active_agents, order, loop, cycle, inflight,
                   stopT, shut, ev, pool, store, req, resp, engine>>

\* ----------------------------------------------------------- AgentManager
IdleCycle == [pc |-> "idle"]
IdleStop == [pc |-> "idle"]

\* AgentManager.__init__, and lifespan creating the loop task (not yet run)
Init ==
    /\ now = 0
    /\ running = FALSE
    /\ active_agents = [a \in AgentIds |-> Absent]
    /\ order = <<>>
    /\ loop = [pc |-> "created", current_time |-> 0, idx |-> 1, size |-> 0,
               cur |-> "", wake |-> 0]
    /\ cycle = [a \in AgentIds |-> IdleCycle]
    /\ inflight = [a \in AgentIds |-> 0]
    /\ stopT = [a \in AgentIds |-> IdleStop]
    /\ shut = [pc |-> "idle", todo |-> <<>>]
    /\ ev = NoEvent
    /\ pool = {"a1"}
    /\ hop = IdleHop
    /\ store = EmptyStore
    /\ req = [u \in Users |-> IdleReq]
    /\ resp = NoResp
    /\ engine = EmptyEngine

\* A coroutine that fetched active_agents[a] before the entry was replaced
\* keeps writing to the object it fetched, which the table no longer holds.
MarkStale(f, a) ==
    [f EXCEPT ![a] = IF @.pc = "idle" THEN @ ELSE [@ EXCEPT !.stale = TRUE]]

\* AgentState(agent_id, status=CREATED, next_execution=utcnow() + 1 minute)
NewAgentState(t) == AgentState(CREATED, NoTime, t + ActivateDelay, 0, 0, {})

\* a lifecycle call on agent a returned res; table is the table it found
CallEvent(op, a, res) ==
    [kind |-> "call", op |-> op, id |-> a, known |-> Registered(a),
     table |-> active_agents, res |-> res]

\* create_agent: saved = agent.save() returned instead of raising
CreateAgent(a, saved) ==
    /\ a \in pool
    /\ active_agents' = [active_agents EXCEPT ![a] = NewAgentState(now)]
    /\ order' = IF Registered(a) THEN order ELSE Append(order, a)
    /\ cycle' = MarkStale(cycle, a)
    /\ stopT' = MarkStale(stopT, a)
    /\ ev' = CallEvent("create", a, IF saved THEN "state" ELSE "raised")
    /\ UNCHANGED <<engine, store, req, resp, hop, pool, now, running, loop, inflight, shut>>

\* the schedule reset on activation instead of set
ActivatedStateClears(s, t) ==
    [s EXCEPT !.status = ACTIVE, !.next_execution = NoTime]

\* the one-minute delay left out
ActivatedStateNow(s, t) ==
    [s EXCEPT !.status = ACTIVE, !.next_execution = t]

\* activate_agent, lines 78-80
ActivatedState(s, t) ==
    [s EXCEPT !.status = ACTIVE, !.next_execution = t + ActivateDelay]

ActivateAgent(a) ==
    /\ IF ~Registered(a)
         THEN /\ ev' = CallEvent("activate", a, "false")
              /\ UNCHANGED active_agents
         ELSE /\ active_agents' =
                   [active_agents EXCEPT ![a] = ActivatedState(@, now)]
              /\ ev' = CallEvent("activate", a, "true")
    /\ UNCHANGED <<engine, store, req, resp, hop, pool, now, running, order, loop, cycle, inflight, stopT, shut>>

\* pause_agent, line 90
PausedState(s) == [s EXCEPT !.status = PAUSED]

\* the membership test left out: the subscript raises KeyError
PauseAgentNoCheck(a) ==
    /\ IF ~Registered(a)
         THEN /\ ev' = CallEvent("pause", a, "raised")
              /\ UNCHANGED active_agents
         ELSE /\ active_agents' =
                   [active_agents EXCEPT ![a] = PausedState(@)]
              /\ ev' = CallEvent("pause", a, "true")
    /\ UNCHANGED <<engine, store, req, resp, hop, pool, now, running, order, loop, cycle, inflight, stopT, shut>>

PauseAgent(a) ==
    /\ IF ~Registered(a)
         THEN /\ ev' = CallEvent("pause", a, "false")
              /\ UNCHANGED active_agents
         ELSE /\ active_agents' =
                   [active_agents EXCEPT ![a] = PausedState(@)]
              /\ ev' = CallEvent("pause", a, "true")
    /\ UNCHANGED <<engine, store, req, resp, hop, pool, now, running, order, loop, cycle, inflight, stopT, shut>>

\* get_agent_status: self.active_agents.get(agent_id)
None == [status |-> "none"]
GetAgentStatus(a) == IF Registered(a) THEN active_agents[a] ELSE None

\* ------------------------------------------------- stop_agent and stop()
\* the positions kept after they were closed
ClosedStateKeeps(s) == s

\* _close_all_positions, line 218
ClosedState(s) == [s EXCEPT !.current_positions = {}]
\* the positions kept when a close_position call reported failure
ClosedUnlessFailed(s, failed) == IF failed = 0 THEN ClosedState(s) ELSE s

\* _close_all_positions, lines 215-218: what close_position returns is
\* not looked at
ClosedAfter(s, failed) == ClosedState(s)

\* stop_agent, line 104
StoppedState(s) == [s EXCEPT !.status = STOPPED]

NoCalls == [p \in PositionIds |-> 0]

\* stop_agent returned True: pre are the positions it found, calls the
\* number of close_position calls it made for each position
\* failed the number of those calls that reported failure
StopEvent(a, pre, calls, stale, failed) ==
    [kind |-> "stop", id |-> a, pre |-> pre, calls |-> calls,
     stale |-> stale, failed |-> failed, table |-> active_agents,
     res |-> "true"]

\* the next stop_agent call of AgentManager.stop(), or its end
ShutPop(sh) ==
    IF Len(sh.todo) <= 1 THEN [pc |-> "done", todo |-> <<>>]
    ELSE [pc |-> "stopping", todo |-> Tail(sh.todo)]

\* stop_agent on a registered agent, up to its first suspension: with no
\* position to close it runs to its end; otherwise it is suspended in the
\* first close_position call.
StopStart(a, by) ==
    LET pos == active_agents[a].current_positions IN
    IF pos = {}
      THEN /\ active_agents' =
                [active_agents EXCEPT ![a] = StoppedState(ClosedState(@))]
           /\ stopT' = stopT
           /\ ev' = StopEvent(a, {}, NoCalls, FALSE, 0)
      ELSE \E p \in pos :
           /\ stopT' = [stopT EXCEPT ![a] =
                          [pc |-> "closing", stale |-> FALSE, failed |-> 0,
                           todo |-> pos \ {p},
                           calls |-> [NoCalls EXCEPT ![p] = 1],
                           pre |-> pos, by |-> by]]
           /\ ev' = NoEvent
           /\ UNCHANGED active_agents

StopAgent(a) ==
    /\ stopT[a].pc = "idle"
    /\ IF ~Registered(a)
         THEN /\ ev' = CallEvent("stop", a, "false")
              /\ UNCHANGED <<active_agents, stopT>>
         ELSE StopStart(a, "api")
    /\ UNCHANGED <<engine, store, req, resp, hop, pool, now, running, order, loop, cycle, inflight, shut>>

\* A close_position call returns, with success (ok) or with the failure
\* of its except branch (strategy_engine.py lines 296 and 299): the next
\* call is made, or, after the last one, the positions are cleared and
\* the status is set
CloseReturns(a, ok) ==
    LET t == stopT[a]
        failed == t.failed + (IF ok THEN 0 ELSE 1)
    IN
    /\ t.pc = "closing"
    /\ IF t.todo # {}
         THEN /\ \E p \in t.todo :
                   stopT' = [stopT EXCEPT ![a].todo = @ \ {p},
                                          ![a].calls[p] = @ + 1,
                                          ![a].failed = failed]
              /\ ev' = NoEvent
              /\ UNCHANGED <<active_agents, shut>>
         ELSE /\ stopT' = [stopT EXCEPT ![a] = IdleStop]
              /\ active_agents' =
                   IF t.stale THEN active_agents
                   ELSE [active_agents EXCEPT
                           ![a] = StoppedState(ClosedAfter(@, failed))]
              /\ ev' = StopEvent(a, t.pre, t.calls, t.stale, failed)
              /\ shut' = IF t.by = "manager" THEN ShutPop(shut) ELSE shut
    /\ UNCHANGED <<engine, store, req, resp, hop, pool, now, running, order, loop, cycle, inflight>>

\* close_position as the code has it: its try part returns success
StopStep(a) == CloseReturns(a, TRUE)

\* AgentManager.stop(): running = False, then stop_agent for every key
ShutBegin ==
    /\ shut.pc = "idle"
    /\ running' = FALSE
    /\ shut' = IF order = <<>> THEN [pc |-> "done", todo |-> <<>>]
               ELSE [pc |-> "stopping", todo |-> order]
    /\ ev' = NoEvent
    /\ UNCHANGED <<engine, store, req, resp, hop, pool, now, active_agents, order, loop, cycle, inflight, stopT>>

ShutNext ==
    /\ shut.pc = "stopping"
    /\ LET a == Head(shut.todo) IN
       /\ stopT[a].pc = "idle"
       /\ StopStart(a, "manager")
       /\ shut' = IF active_agents[a].current_positions = {}
                  THEN ShutPop(shut)
                  ELSE [shut EXCEPT !.pc = "waiting"]
    /\ UNCHANGED <<engine, store, req, resp, hop, pool, now, running, order, loop, cycle, inflight>>

\* -------------------------------------------------------- run_agent_loop
\* the status test left out of the dispatch condition
DueMutant(s, T) ==
    /\ s.next_execution # NoTime
    /\ T >= s.next_execution

\* the dispatch condition of run_agent_loop, lines 119-121
Due(s, T) ==
    /\ s.status = ACTIVE
    /\ s.next_execution # NoTime
    /\ T >= s.next_execution

\* asyncio.create_task(...) in place of await: the loop does not wait
AwaitsCycleMutant == FALSE

\* line 124: the loop awaits the cycle it dispatches
AwaitsCycle == TRUE

RECURSIVE FirstDue(_, _, _, _)
FirstDue(tbl, ord, i, T) ==
    IF i > Len(ord) THEN 0
    ELSE IF Due(tbl[ord[i]], T) THEN i
    ELSE FirstDue(tbl, ord, i + 1, T)

DueFrom(tbl, ord, i, T) ==
    {ord[k] : k \in {j \in i..Len(ord) : Due(tbl[ord[j]], T)}}

Sleeping(t) ==
    [pc |-> "sleep", current_time |-> 0, idx |-> 1, size |-> 0,
     cur |-> "", wake |-> t]

\* the exception ends the loop task
LoopExceptExits(t) ==
    [pc |-> "done", current_time |-> 0, idx |-> 1, size |-> 0,
     cur |-> "", wake |-> 0]

\* lines 129-131: the except branch of the loop logs and sleeps 30 seconds
LoopExcept(t) == [Sleeping(t + ErrorSleep) EXCEPT !.pc = "sleep_error"]

\* The loop from the for statement's next() call to its next suspension:
\* the dict iterator raises RuntimeError when the table changed size, which
\* the loop's except branch answers with sleep(30); otherwise agents that
\* are not due are passed over, the first due one is dispatched and
\* awaited, and at the end of the table the loop sleeps 10 seconds.
LoopRun(tbl, ord, lp, t) ==
    IF Len(ord) # lp.size
      THEN [loop |-> LoopExcept(t), dispatched |-> {}]
    ELSE LET j == FirstDue(tbl, ord, lp.idx, lp.current_time) IN
      IF j = 0
        THEN [loop |-> Sleeping(t + SleepInterval), dispatched |-> {}]
      ELSE IF AwaitsCycle
        THEN [loop |-> [lp EXCEPT !.pc = "await", !.cur = ord[j],
                                  !.idx = j + 1],
              dispatched |-> {ord[j]}]
      ELSE [loop |-> Sleeping(t + SleepInterval),
            dispatched |-> DueFrom(tbl, ord, lp.idx, lp.current_time)]

NoDecision == [source |-> "none"]

\* _execute_agent_strategy up to its first await (Agent.get)
NewCycle(s, T) ==
    [pc |-> "get_agent", stale |-> FALSE, found |-> TRUE, market |-> "none",
     tick |-> T, pre |-> s, predictor |-> "none", decision |-> NoDecision]

Dispatch(tbl, D, cyc, T) ==
    [a \in AgentIds |-> IF a \in D THEN NewCycle(tbl[a], T) ELSE cyc[a]]

Count(D, inf) ==
    [a \in AgentIds |-> IF a \in D THEN inf[a] + 1 ELSE inf[a]]

\* "while self.running:" followed by one pass over the table
BeginTick ==
    LET lp0 == [loop EXCEPT !.current_time = now, !.idx = 1,
                            !.size = Len(order)]
        r   == LoopRun(active_agents, order, lp0, now)
    IN /\ loop' = r.loop
       /\ cycle' = Dispatch(active_agents, r.dispatched, cycle, now)
       /\ inflight' = Count(r.dispatched, inflight)

\* the task created by lifespan runs for the first time
LoopStart ==
    /\ loop.pc = "created"
    /\ running' = TRUE
    /\ BeginTick
    /\ ev' = NoEvent
    /\ UNCHANGED <<engine, store, req, resp, hop, pool, now, active_agents, order, stopT, shut>>

\* asyncio.sleep returns
LoopWake ==
    /\ loop.pc \in {"sleep", "sleep_error"}
    /\ now >= loop.wake
    /\ IF running
         THEN BeginTick
         ELSE /\ loop' = [loop EXCEPT !.pc = "done", !.wake = 0]
              /\ UNCHANGED <<cycle, inflight>>
    /\ ev' = NoEvent
    /\ UNCHANGED <<engine, store, req, resp, hop, pool, now, running, active_agents, order, stopT, shut>>

AdvanceClock ==
    /\ now < MaxTime
    /\ now' = now + 1
    /\ ev' = NoEvent
    /\ UNCHANGED <<engine, store, req, resp, hop, pool, running, active_agents, order, loop, cycle, inflight,
                   stopT, shut>>

\* ----------------------------------------------- _execute_agent_strategy
\* the profit of the execution not added
UpdatedStateNoProfit(s, t, profit, minutes) ==
    [s EXCEPT !.last_execution = t,
              !.execution_count = @ + 1,
              !.next_execution = t + minutes]

\* lines 161-167: the state update of a cycle that raised nothing
UpdatedState(s, t, profit, minutes) ==
    [s EXCEPT !.last_execution = t,
              !.execution_count = @ + 1,
              !.total_profit = @ + profit,
              !.next_execution = t + minutes]

\* the except branch counting the cycle as an execution
FaultStateCounts(s, t) ==
    [s EXCEPT !.next_execution = t + FaultBackoff,
              !.execution_count = @ + 1]

\* lines 174-175: the except branch
FaultState(s, t) == [s EXCEPT !.next_execution = t + FaultBackoff]

CycleEvent(a, path, result, invoked) ==
    [kind |-> "cycle", id |-> a, path |-> path,
     pre |-> cycle[a].pre, before |-> active_agents[a],
     stale |-> cycle[a].stale, tick |-> cycle[a].tick,
     reached |-> cycle[a].pc, found |-> cycle[a].found,
     market |-> cycle[a].market, predictor |-> cycle[a].predictor,
     decision |-> cycle[a].decision, invoked |-> invoked,
     result |-> result]

\* The cycle of agent a returns with the table as tbl; the loop, when it
\* awaits this cycle, goes on with the next entries of the table.
CycleEnd(a, tbl, event) ==
    LET r == IF loop.pc = "await" /\ loop.cur = a
               THEN LoopRun(tbl, order, loop, now)
               ELSE [loop |-> loop, dispatched |-> {}]
        idle == [cycle EXCEPT ![a] = IdleCycle]
        less == [inflight EXCEPT ![a] = @ - 1]
    IN /\ active_agents' = tbl
       /\ loop' = r.loop
       /\ cycle' = Dispatch(tbl, r.dispatched, idle, loop.current_time)
       /\ inflight' = Count(r.dispatched, less)
       /\ ev' = event
       /\ UNCHANGED <<engine, store, req, resp, hop, pool, now, running, order, stopT, shut>>

\* an exception reaches the except branch, which fetches the table's
\* entry again and writes the backoff to it
Fault(a) ==
    CycleEnd(a, [active_agents EXCEPT ![a] = FaultState(@, now)],
             CycleEvent(a, "fault", FailedResult, FALSE))

Continue(a, c) ==
    /\ cycle' = [cycle EXCEPT ![a] = c]
    /\ ev' = NoEvent
    /\ UNCHANGED <<engine, store, req, resp, hop, pool, now, running, active_agents, order, loop, inflight,
                   stopT, shut>>

\* "agent = await Agent.get(agent_id)": the record, None, or an exception
AgentGet(a, outcome) ==
    /\ cycle[a].pc = "get_agent"
    /\ IF outcome = "raise" THEN Fault(a)
       ELSE Continue(a, [cycle[a] EXCEPT !.pc = "gather",
                                          !.found = (outcome = "found")])

\* a failed call of the market data provider raised to the cycle
GatherMarketDataRaises(a, ok) ==
    /\ cycle[a].pc = "gather"
    /\ IF ~cycle[a].found
         THEN ~ok /\ Fault(a)
         ELSE IF ok
           THEN Continue(a, [cycle[a] EXCEPT !.pc = "decide", !.market = "ok"])
           ELSE Fault(a)

\* _gather_market_data returns the market context, or {} when one of its
\* calls raised; with agent = None it returns {} and the attribute access
\* agent.strategy_config then raises
GatherMarketData(a, ok) ==
    /\ cycle[a].pc = "gather"
    /\ IF ~cycle[a].found
         THEN ~ok /\ Fault(a)
         ELSE Continue(a, [cycle[a] EXCEPT
                             !.pc = "decide",
                             !.market = IF ok THEN "ok" ELSE "empty"])

\* get_strategy_decision returns and execute_strategy is called with
\* whatever it returned (line 154)
Decide(a, d, outcome) ==
    /\ cycle[a].pc = "decide"
    /\ d \in DecisionsFor(cycle[a].market, outcome)
    /\ Continue(a, [cycle[a] EXCEPT !.pc = "execute", !.predictor = outcome,
                                    !.decision = d])

\* execute_strategy returns and the state held by the cycle is updated
Execute(a, chain, txOk, p, saveOk) ==
    /\ cycle[a].pc = "execute"
    /\ LET d == cycle[a].decision
           r == ExecuteStrategy(d, chain, txOk, p, saveOk)
           tbl == IF cycle[a].stale THEN active_agents
                  ELSE [active_agents EXCEPT ![a] =
                          UpdatedState(@, now, r.profit,
                                       d.next_check_minutes)]
       IN CycleEnd(a, tbl, CycleEvent(a, "normal", r, TRUE))

\* ------------------------------------------------------------------ Next
Next ==
    \/ AdvanceClock
    \/ LoopStart
    \/ LoopWake
    \/ \E a \in CalledIds, saved \in BOOLEAN : CreateAgent(a, saved)
    \/ \E a \in CalledIds : ActivateAgent(a)
    \/ \E a \in CalledIds : PauseAgent(a)
    \/ \E a \in CalledIds : StopAgent(a)
    \/ \E a \in AgentIds, o \in {"found", "missing", "raise"} : AgentGet(a, o)
    \/ \E a \in AgentIds, ok \in BOOLEAN : GatherMarketData(a, ok)
    \/ \E a \in AgentIds, o \in PredictorOutcomes :
          /\ cycle[a].pc = "decide"
          /\ \E d \in DecisionsFor(cycle[a].market, o) : Decide(a, d, o)
    \/ \E a \in AgentIds, chain \in BOOLEAN, txOk \in BOOLEAN,
          p \in ProfitValues, saveOk \in BOOLEAN :
            Execute(a, chain, txOk, p, saveOk)

\* No code of the engine adds to current_positions, so from Init stop_agent
\* never has a position to close and runs to its end in one step.
Spec == Init /\ [][Next]_vars

\* The same manager after create_agent("a1") returned its AgentState and the
\* holder of that object recorded open positions in current_positions.
InitPos ==
    /\ now = 0
    /\ running = FALSE
    /\ active_agents =
         [a \in AgentIds |->
            IF a = "a1"
              THEN [NewAgentState(0) EXCEPT !.current_positions = PositionIds]
              ELSE Absent]
    /\ order = <<"a1">>
    /\ loop = [pc |-> "created", current_time |-> 0, idx |-> 1, size |-> 0,
               cur |-> "", wake |-> 0]
    /\ cycle = [a \in AgentIds |-> IdleCycle]
    /\ inflight = [a \in AgentIds |-> 0]
    /\ stopT = [a \in AgentIds |-> IdleStop]
    /\ shut = [pc |-> "idle", todo |-> <<>>]
    /\ ev = NoEvent
    /\ pool = {"a1"}
    /\ hop = IdleHop
    /\ store = EmptyStore
    /\ req = [u \in Users |-> IdleReq]
    /\ resp = NoResp
    /\ engine = EmptyEngine

\* AgentManager.stop() called while the loop runs
NextShutdown == Next \/ ShutBegin \/ ShutNext

\* with positions to close, stop_agent goes through its close_position calls
NextPos == Next \/ \E a \in AgentIds : StopStep(a)

SpecPos == InitPos /\ [][NextPos]_vars

\* The lifecycle calls on an agent with open positions, close_position
\* answering with either of its two results
NextClose ==
    \/ AdvanceClock
    \/ \E a \in CalledIds, saved \in BOOLEAN : CreateAgent(a, saved)
    \/ \E a \in CalledIds : ActivateAgent(a)
    \/ \E a \in CalledIds : PauseAgent(a)
    \/ \E a \in CalledIds : StopAgent(a)
    \/ \E a \in AgentIds, ok \in BOOLEAN : CloseReturns(a, ok)

SpecClose == InitPos /\ [][NextClose]_vars

SpecShutdown == Init /\ [][NextShutdown]_vars

\* StrategyEngine._execute_multi_hop_strategy on its own, for every list of
\* at most MaxSteps steps
NextHop ==
    \/ \E steps \in SeqsUpTo(StepKinds, MaxSteps) : HopStart(steps)
    \/ \E ok \in BOOLEAN, p \in StepProfits : HopStep(ok, p)

SpecHop == Init /\ [][NextHop]_vars

\* The agent endpoints of the backend API, requests of the two users
\* interleaving at their awaits
NextApi ==
    \/ \E u \in Users, name \in NameValues : ApiCreate(u, name)
    \/ \E u \in Users, id \in RowIds : ApiGet(u, id)
    \/ \E u \in Users, op \in {"update", "delete"}, id \in RowIds,
          data \in NameValues \cup {NoUpdate} : ApiFetch(u, op, id, data)
    \/ \E u \in Users : ApiWrite(u)

SpecApi == Init /\ [][NextApi]_vars

\* The agent endpoints of the agent engine, the requests of two
\* connections interleaving at their awaits
NextEngine ==
    \/ \E c \in EngineClients, u \in EngineOwners, id \in EngineIds :
          EngineCreate(c, u, id)
    \/ \E c \in EngineClients, u \in Users, op \in EngineOps, id \in EngineIds :
          EngineFetch(c, u, op, id)
    \/ \E c \in EngineClients : EngineWrite(c)

\* the table holding one agent that has a wallet
InitEngine ==
    /\ now = 0
    /\ running = FALSE
    /\ active_agents = [a \in AgentIds |-> Absent]
    /\ order = <<>>
    /\ loop = [pc |-> "created", current_time |-> 0, idx |-> 1, size |-> 0,
               cur |-> "", wake |-> 0]
    /\ cycle = [a \in AgentIds |-> IdleCycle]
    /\ inflight = [a \in AgentIds |-> 0]
    /\ stopT = [a \in AgentIds |-> IdleStop]
    /\ shut = [pc |-> "idle", todo |-> <<>>]
    /\ ev = NoEvent
    /\ pool = {"a1"}
    /\ hop = IdleHop
    /\ store = EmptyStore
    /\ req = [u \in Users |-> IdleReq]
    /\ resp = NoResp
    /\ engine = SeededEngine

SpecEngine == InitEngine /\ [][NextEngine]_vars

\* The server handles every request it has begun to its end, and the owner
\* of an agent goes on sending update and start requests for it.
EngineFairness ==
    /\ \A c \in EngineClients : WF_vars(EngineWrite(c))
    /\ \A id \in EngineIds, op \in {"update", "start"} :
          SF_vars(\E c \in EngineClients : EngineFetch(c, "A", op, id))

\* the same endpoints over a table that is empty at the start, so that
\* every agent in it was created through the create_agent endpoint
SpecEngineLive == Init /\ [][NextEngine]_vars /\ EngineFairness

\* One pass of the loop over a table of two agents that were registered and
\* activated at time 0, while a caller registers a third one.
InitTick ==
    /\ now = 0
    /\ running = FALSE
    /\ active_agents =
         [a \in AgentIds |->
            IF a \in {"a1", "a2"}
              THEN ActivatedState(NewAgentState(0), 0)
              ELSE Absent]
    /\ order = <<"a1", "a2">>
    /\ loop = [pc |-> "created", current_time |-> 0, idx |-> 1, size |-> 0,
               cur |-> "", wake |-> 0]
    /\ cycle = [a \in AgentIds |-> IdleCycle]
    /\ inflight = [a \in AgentIds |-> 0]
    /\ stopT = [a \in AgentIds |-> IdleStop]
    /\ shut = [pc |-> "idle", todo |-> <<>>]
    /\ ev = NoEvent
    /\ pool = {"a3"}
    /\ hop = IdleHop
    /\ store = EmptyStore
    /\ req = [u \in Users |-> IdleReq]
    /\ resp = NoResp
    /\ engine = EmptyEngine

NextTick ==
    \/ AdvanceClock
    \/ LoopStart
    \/ LoopWake
    \/ \E a \in AgentIds, saved \in BOOLEAN : CreateAgent(a, saved)
    \/ \E a \in AgentIds, o \in {"found", "missing", "raise"} : AgentGet(a, o)
    \/ \E a \in AgentIds, ok \in BOOLEAN : GatherMarketData(a, ok)
    \/ \E a \in AgentIds, o \in PredictorOutcomes :
          /\ cycle[a].pc = "decide"
          /\ \E d \in DecisionsFor(cycle[a].market, o) : Decide(a, d, o)
    \/ \E a \in AgentIds, chain \in BOOLEAN, txOk \in BOOLEAN,
          p \in ProfitValues, saveOk \in BOOLEAN :
            Execute(a, chain, txOk, p, saveOk)

SpecTick == InitTick /\ [][NextTick]_vars

\* The loop with its cycles and concurrent registrations, the cycles taking
\* decisions of the shortest delay and of the delays of the two fallbacks.
LiveDelays == {1, 30, 60}
LiveDecisions(market, outcome) ==
    {d \in DecisionsFor(market, outcome) : d.next_check_minutes \in LiveDelays}

CycleStep(a) ==
    \/ \E o \in {"found", "missing", "raise"} : AgentGet(a, o)
    \/ \E ok \in BOOLEAN : GatherMarketData(a, ok)
    \/ \E o \in PredictorOutcomes \ {"cached"} :
          /\ cycle[a].pc = "decide"
          /\ \E d \in LiveDecisions(cycle[a].market, o) : Decide(a, d, o)
    \/ \E chain \in BOOLEAN, txOk \in BOOLEAN, p \in ProfitValues,
          saveOk \in BOOLEAN : Execute(a, chain, txOk, p, saveOk)

NextLive ==
    \/ AdvanceClock
    \/ LoopStart
    \/ LoopWake
    \/ \E a \in AgentIds, saved \in BOOLEAN : CreateAgent(a, saved)
    \/ \E a \in AgentIds : CycleStep(a)

\* The event loop runs every task that is ready: the loop task is resumed
\* when its sleep is over, and the external calls a cycle awaits return.
Fairness ==
    /\ WF_vars(LoopStart \/ LoopWake)
    /\ WF_vars(\E a \in AgentIds : CycleStep(a))

SpecLive == InitTick /\ [][NextLive]_vars /\ Fairness

\* ================================================================ claims

\* C1: at most one execution cycle is in flight for any agent at any time:
\* an agent is never dispatched again before its previous cycle completed.
C1_AtMostOneCycleInFlight ==
    \A a \in AgentIds : inflight[a] <= 1

\* a cycle is in flight while a lifecycle call on the same agent returns
C1_Witness ==
    \E a \in AgentIds :
        /\ inflight[a] = 1
        /\ cycle[a].pc = "execute"
        /\ ev.kind = "call" /\ ev.id = a /\ ev.res = "true"

\* C2: a tick at time T dispatches a cycle only for an agent that, at the
\* dispatch check, is active and has next_execution <= T.
C2_DispatchOnlyWhenDue ==
    \A a \in AgentIds :
        cycle[a].pc # "idle" =>
            /\ cycle[a].pre.status = ACTIVE
            /\ cycle[a].pre.next_execution # NoTime
            /\ cycle[a].pre.next_execution <= cycle[a].tick
            /\ cycle[a].tick <= now

C2_Witness ==
    \E a \in AgentIds :
        /\ cycle[a].pc = "get_agent"
        /\ cycle[a].pre.status = ACTIVE
        /\ cycle[a].pre.next_execution = cycle[a].tick

\* C3: for a cycle whose decision has should_execute = false the execution
\* provider is never invoked (and next_execution is still rescheduled).
C3_NoExecutionUnlessShouldExecute ==
    \A a \in AgentIds :
        cycle[a].pc = "execute" => cycle[a].decision.should_execute

\* C4: after any completed cycle, on the normal or on the fault path, the
\* agent's execution_count is one greater than before the cycle started.
C4_CountIncrementsEveryCycle ==
    ev.kind = "cycle" =>
        active_agents[ev.id].execution_count = ev.pre.execution_count + 1

\* C5: every registered agent whose status is active has a non-empty
\* next_execution.
C5_ActiveHasNextExecution ==
    \A a \in AgentIds :
        Registered(a) /\ active_agents[a].status = ACTIVE
            => active_agents[a].next_execution # NoTime

\* an agent that is active again after a completed cycle
C5_Witness ==
    \E a \in AgentIds :
        /\ Registered(a)
        /\ active_agents[a].status = ACTIVE
        /\ active_agents[a].execution_count = 1

\* C6: stop_agent on an agent with open positions calls close_position
\* once for every entry of its positions; the status becomes stopped only
\* after all of those calls, and the positions are empty from then on.
C6_StopClosesEveryPosition ==
    /\ ev.kind = "stop" =>
          /\ \A p \in PositionIds :
                ev.calls[p] = IF p \in ev.pre THEN 1 ELSE 0
          /\ ~ev.stale =>
                /\ active_agents[ev.id].status = STOPPED
                /\ active_agents[ev.id].current_positions = {}
    /\ \A a \in AgentIds :
          /\ stopT[a].pc = "closing" /\ ~stopT[a].stale
                => active_agents[a].status # STOPPED
          /\ Registered(a) /\ active_agents[a].status = STOPPED
                => active_agents[a].current_positions = {}

\* a stop_agent call that found two open positions has returned
C6_Witness ==
    /\ ev.kind = "stop"
    /\ ev.pre = PositionIds
    /\ ~ev.stale
    /\ active_agents[ev.id].status = STOPPED

\* C7: pause on an agent whose status is stopped leaves it stopped.
C7_PauseLeavesStopped ==
    (ev.kind = "call" /\ ev.op = "pause" /\ ev.known
        /\ ev.table[ev.id].status = STOPPED)
    => active_agents[ev.id].status = STOPPED

\* C8: create_agent for an id that is already registered fails and does
\* not replace the runtime state of that agent: its status, counters,
\* times and positions stay as they were.
C8_RegisterKeepsExistingState ==
    (ev.kind = "call" /\ ev.op = "create" /\ ev.known)
    => active_agents[ev.id] = ev.table[ev.id]

\* C9: activate, pause and stop on an id that is not registered return
\* false without raising and leave the table unchanged; get_agent_status
\* of such an id returns None.
C9_UnknownAgentIsRejected ==
    /\ (ev.kind = "call" /\ ev.op \in {"activate", "pause", "stop"}
           /\ ~ev.known)
       => /\ ev.res = "false"
          /\ active_agents = ev.table
    /\ \A a \in AgentIds : ~Registered(a) => GetAgentStatus(a) = None

\* a call on an unknown id returned while another agent is registered
C9_Witness ==
    /\ ev.kind = "call" /\ ev.op = "pause" /\ ~ev.known
    /\ \E a \in AgentIds : Registered(a) /\ active_agents[a].status = ACTIVE

\* C10 as stated: activate sets next_execution to the time of the call, so
\* that a tick taken at that time finds the agent due.
C10_ActivateSchedulesNow ==
    (ev.kind = "call" /\ ev.op = "activate" /\ ev.known)
    => /\ active_agents[ev.id].next_execution = now
       /\ active_agents[ev.id].status = ACTIVE

\* C10 amended: activate sets the status to active and next_execution to
\* one minute after the call, so that a tick taken at the time of the call
\* does not find the agent due.
C10_ActivateSchedulesInOneMinute ==
    (ev.kind = "call" /\ ev.op = "activate" /\ ev.known)
    => /\ active_agents[ev.id].status = ACTIVE
       /\ active_agents[ev.id].next_execution = now + 1
       /\ ~(now >= active_agents[ev.id].next_execution)

\* activate returned true for an agent that had been paused
C10_Witness ==
    /\ ev.kind = "call" /\ ev.op = "activate" /\ ev.known
    /\ ev.table[ev.id].status = PAUSED
    /\ active_agents[ev.id].status = ACTIVE

\* C11 as stated: every status change of a registered agent that is not a
\* new registration is one of created -> active, active -> paused,
\* paused -> active, active -> stopped; in particular a stopped agent
\* stays stopped under activate, pause, stop and ticks.
C11_OnlyListedTransitions ==
    [][\A a \in AgentIds :
          (Registered(a) /\ ~(ev'.kind = "call" /\ ev'.op = "create")
             /\ active_agents'[a].status # active_agents[a].status)
          => <<active_agents[a].status, active_agents'[a].status>> \in
                {<<CREATED, ACTIVE>>, <<ACTIVE, PAUSED>>,
                 <<PAUSED, ACTIVE>>, <<ACTIVE, STOPPED>>}]_vars

\* C12: after a cycle in which the decision has should_execute = true and
\* next_check_minutes = d and the execution succeeds reporting profit p,
\* the state the cycle works on has execution_count increased by exactly 1
\* and total_profit by exactly p since the cycle was dispatched,
\* last_execution = now and next_execution = now + d minutes; for a fresh
\* agent with d = 5 and p = 2.5: count 1, profit 2.5, next = now + 5.
\* (An entry replaced by create_agent during the cycle is no longer the
\* state the cycle works on.)
C12_SuccessfulCycleUpdatesState ==
    (ev.kind = "cycle" /\ ev.path = "normal" /\ ~ev.stale
        /\ ev.decision.should_execute /\ ev.result.success)
    => LET s == active_agents[ev.id]
           d == ev.decision.next_check_minutes
           p == ev.result.profit
       IN /\ s.execution_count = ev.pre.execution_count + 1
          /\ s.total_profit = ev.pre.total_profit + p
          /\ s.last_execution = now
          /\ s.next_execution = now + d
          /\ (ev.pre.execution_count = 0 /\ ev.pre.total_profit = 0
                /\ d = 5 /\ p = 25)
             => (s.execution_count = 1 /\ s.total_profit = 25
                   /\ s.next_execution = now + 5)

\* the first cycle of a fresh agent succeeded with d = 5 and p = 2.5
C12_Witness ==
    /\ ev.kind = "cycle" /\ ev.path = "normal" /\ ~ev.stale
    /\ ev.decision.should_execute /\ ev.result.success
    /\ ev.decision.next_check_minutes = 5 /\ ev.result.profit = 25
    /\ active_agents[ev.id].execution_count = 1

\* C13: when the predictor call raises a timeout during a cycle, the cycle
\* still completes, the status of the agent stays as it is (an active agent
\* remains active and does not become error), and next_execution is
\* now + 30 minutes.
C13_PredictorTimeoutKeepsActive ==
    (ev.kind = "cycle" /\ ev.predictor = "failed" /\ ~ev.stale)
    => /\ ev.path = "normal"
       /\ active_agents[ev.id].status = ev.before.status
       /\ active_agents[ev.id].status # ERROR
       /\ active_agents[ev.id].next_execution = now + 30

\* a cycle of an active agent completed after its predictor call failed
C13_Witness ==
    /\ ev.kind = "cycle" /\ ev.predictor = "failed" /\ ~ev.stale
    /\ ev.before.status = ACTIVE
    /\ active_agents[ev.id].status = ACTIVE
    /\ active_agents[ev.id].execution_count = 1

\* C14 as stated: a multi-step decision of three steps whose second step
\* fails yields success = false, completed_steps = 2 and a profit equal to
\* the sum of the profits of the first two steps.
C14_ProfitSumsFirstTwoSteps ==
    (hop.pc = "done" /\ Len(hop.steps) = 3 /\ Len(hop.results) = 2
        /\ hop.results[1].success /\ ~hop.results[2].success)
    => /\ hop.ret.success = FALSE
       /\ hop.ret.completed_steps = 2
       /\ hop.ret.profit = hop.results[1].profit + hop.results[2].profit

\* C15: the steps of a multi-hop decision are executed strictly in list
\* order, one at a time; after a step that reports failure, or a step of
\* an unknown strategy type, no later step is attempted and the overall
\* result is success = false; the steps executed before stay executed.
C15_StepsInOrderAbortOnFailure ==
    hop.pc # "idle" =>
        /\ \A k \in 1..Len(hop.log) :
              hop.log[k] = k /\ hop.steps[k] \in StepRegistry
        /\ Len(hop.log) = Len(hop.results) + (IF hop.pc = "running" THEN 1 ELSE 0)
        /\ \A k \in 1..Len(hop.log) : \A j \in 1..(k - 1) :
              hop.results[j].success
        /\ hop.pc = "done" =>
              /\ Len(hop.log) = Len(hop.results)
              /\ (Len(hop.results) < Len(hop.steps)
                    \/ \E k \in 1..Len(hop.results) : ~hop.results[k].success)
                 => hop.ret.success = FALSE

\* the second of three steps failed after the first was executed
C15_Witness ==
    /\ hop.pc = "done" /\ Len(hop.steps) = 3
    /\ hop.log = <<1, 2>>
    /\ hop.results[1].success /\ ~hop.results[2].success
    /\ hop.ret.success = FALSE

\* C16 as stated: when the cycle of one agent faults during a tick, every
\* other agent that is due at that tick is still dispatched in the same
\* tick, also when agents are registered while the tick iterates the
\* table: the loop goes to sleep after a faulted cycle only when no agent
\* from the iterator's position on is due at the time of the tick.
C16_OthersDispatchedInSameTick ==
    [][(loop.pc = "await" /\ loop'.pc \in {"sleep", "sleep_error"}
          /\ ev'.kind = "cycle" /\ ev'.path = "fault")
       => DueFrom(active_agents', order', loop.idx, loop.current_time) = {}]_vars

\* C17: the scheduler loop never exits because of a fault in a cycle or in
\* a tick: it keeps ticking, so that every agent that is active and due is
\* eventually dispatched (the external calls return, stop() is not called).
C17_LoopKeepsTicking ==
    /\ [](loop.pc # "done")
    /\ \A a \in AgentIds :
          (Registered(a) /\ Due(active_agents[a], now)) ~> (inflight[a] > 0)

\* the loop sleeps after a fault of the tick while an agent is due whose
\* turn the fault took
C17_Witness ==
    /\ loop.pc = "sleep_error"
    /\ \E a \in AgentIds :
          /\ Registered(a) /\ Due(active_agents[a], now)
          /\ inflight[a] = 0
    /\ \E b \in AgentIds :
          Registered(b) /\ active_agents[b].next_execution = now + FaultBackoff

\* C18 as stated: for every agent id, execution_count never decreases
\* across register, activate, pause, stop and tick operations.
C18_ExecutionCountNeverDecreases ==
    [][\A a \in AgentIds :
          Registered(a) =>
             active_agents'[a].execution_count
                >= active_agents[a].execution_count]_vars

\* C19 as stated: the status error is reachable: after a cycle that ended
\* with an unrecoverable fault the status of the agent is error.
C19_FaultSetsError ==
    (ev.kind = "cycle" /\ ev.path = "fault")
    => active_agents[ev.id].status = ERROR

\* C20: in the backend API a get, update or delete request of a user on
\* an agent owned by another user is answered with 404, and no request
\* of a user changes or deletes the row of an agent owned by another
\* user, however the requests of the two users interleave.
C20_OtherUsersAgentIsNotFound ==
    resp.kind = "http" =>
        /\ (resp.op \in {"get", "update", "delete"}
              /\ resp.before[resp.id] # NoRow
              /\ resp.before[resp.id].user_id # resp.user)
           => resp.status = 404
        /\ \A i \in RowIds :
              (resp.before[i] # NoRow /\ resp.before[i].user_id # resp.user)
              => store.rows[i] = resp.before[i]

\* an update of B on A's agent is answered 404 while an update of A on
\* that agent is in flight
C20_Witness ==
    /\ resp.kind = "http" /\ resp.user = "B" /\ resp.op = "update"
    /\ resp.status = 404
    /\ resp.before[resp.id] # NoRow /\ resp.before[resp.id].user_id = "A"
    /\ req["A"].pc = "write" /\ req["A"].id = resp.id

\* C21: when a cycle ends on the fault path, the only field of the agent's
\* runtime state that the cycle changes is next_execution, which becomes
\* now + 30 minutes; status, last_execution, execution_count, total_profit
\* and current_positions are as they were (as at the dispatch, when no
\* lifecycle call came in between), and no other agent's state changes.
C21_FaultChangesOnlyNextExecution ==
    [][(ev'.kind = "cycle" /\ ev'.path = "fault")
       => LET a == ev'.id IN
          /\ active_agents' =
                [active_agents EXCEPT ![a].next_execution = now + 30]
          /\ active_agents[a] = ev'.pre
                => /\ active_agents'[a].status = ev'.pre.status
                   /\ active_agents'[a].last_execution = ev'.pre.last_execution
                   /\ active_agents'[a].execution_count = ev'.pre.execution_count
                   /\ active_agents'[a].total_profit = ev'.pre.total_profit
                   /\ active_agents'[a].current_positions
                         = ev'.pre.current_positions]_vars

\* a cycle faulted after the cycle of another agent had completed with a
\* profit
C21_Witness ==
    /\ ev.kind = "cycle" /\ ev.path = "fault" /\ ~ev.stale
    /\ active_agents[ev.id] = [ev.pre EXCEPT !.next_execution = now + 30]
    /\ \E b \in AgentIds \ {ev.id} :
          /\ Registered(b)
          /\ active_agents[b].execution_count = 1
          /\ active_agents[b].total_profit = 25

\* C22: a failure of an upstream provider call never sends the cycle down
\* the fault path: a cycle faults only when Agent.get raised or returned no
\* record.  After a failed market-data call the decision is taken from the
\* empty context, after a failed predictor call it is a hold decision that
\* is not to be executed, a failed execution gives a result without
\* success, and in each case the cycle makes its normal state update and
\* reschedules the agent by the decision's delay.
C22_ProviderFailureIsCaughtAtTheCall ==
    ev.kind = "cycle" =>
        /\ ev.path = "fault" =>
              /\ ev.reached = "get_agent" \/ (ev.reached = "gather" /\ ~ev.found)
              /\ ev.market = "none" /\ ev.predictor = "none"
        /\ ev.path = "normal" =>
              /\ ev.reached = "execute" /\ ev.found
              /\ ev.market \in {"ok", "empty"}
              /\ ev.decision \in DecisionsFor(ev.market, ev.predictor)
              /\ ev.predictor \in {"failed", "raised"}
                    => ev.decision.hold /\ ~ev.decision.should_execute
              /\ ~ev.stale =>
                    LET s == active_agents[ev.id] IN
                    /\ s.status = ev.before.status
                    /\ s.execution_count = ev.before.execution_count + 1
                    /\ s.total_profit = ev.before.total_profit + ev.result.profit
                    /\ s.last_execution = now
                    /\ s.next_execution = now + ev.decision.next_check_minutes

\* a cycle completed on the normal path although its market-data call and
\* its predictor call failed and its execution gave no success
C22_Witness ==
    /\ ev.kind = "cycle" /\ ev.path = "normal" /\ ~ev.stale
    /\ ev.market = "empty" /\ ev.predictor = "failed"
    /\ ~ev.result.success
    /\ active_agents[ev.id].execution_count = 1
    /\ active_agents[ev.id].next_execution = now + 30

\* C23 as stated: when persisting the execution record fails after the
\* strategy action has run, the cycle still completes and the runtime
\* state is updated as on the normal path: execution_count incremented,
\* the profit realized by the action added to total_profit, and
\* next_execution set from the decision's delay.
C23_SaveFailureKeepsUpdate ==
    (ev.kind = "cycle" /\ ~ev.stale /\ ev.reached = "execute"
        /\ ev.result.chain /\ ev.result.acted /\ ~ev.result.saved)
    => LET s == active_agents[ev.id] IN
       /\ ev.path = "normal"
       /\ s.execution_count = ev.before.execution_count + 1
       /\ s.total_profit = ev.before.total_profit + ev.result.realized
       /\ s.next_execution = now + ev.decision.next_check_minutes

\* C24 as stated: a lifecycle operation (activate, pause, stop) that
\* interleaves with a cycle in flight of the same agent loses no update:
\* the status and the next_execution the operation wrote while the cycle
\* was in flight are still in effect when the cycle has completed.
C24_LifecycleWritesSurviveCycle ==
    (ev.kind = "cycle" /\ ~ev.stale)
    => LET s == active_agents[ev.id] IN
       /\ ev.before.status # ev.pre.status
             => s.status = ev.before.status
       /\ ev.before.next_execution # ev.pre.next_execution
             => s.next_execution = ev.before.next_execution

\* C25: in the agent-engine API a start request is accepted only when the
\* status it finds stored is created, paused or stopped and a wallet
\* address is configured, and a pause request only when the status it
\* finds stored is active; a request that is rejected on these grounds is
\* answered 400 and leaves the stored agents as they were.
C25_StartAndPauseAreValidated ==
    LET r == engine.resp IN
    (r.kind = "http" /\ r.op \in {"start", "pause"}
        /\ r.read # NoAgent /\ r.read.owner_id = r.user)
    => LET accepted == IF r.op = "start"
                         THEN /\ r.read.status \in {CREATED, PAUSED, STOPPED}
                              /\ r.read.wallet_address # NoWallet
                         ELSE r.read.status = ACTIVE
       IN IF accepted
            THEN /\ r.status = 200
                 /\ engine.agents[r.id].status
                       = IF r.op = "start" THEN ACTIVE ELSE PAUSED
            ELSE /\ r.status = 400
                 /\ r.read = r.before[r.id]
                 /\ engine.agents = r.before

\* a pause was accepted after a start had been, and a start of an agent
\* without a wallet was rejected
C25_Witness ==
    LET r == engine.resp IN
    /\ r.kind = "http" /\ r.op = "start" /\ r.status = 400
    /\ r.read.status = CREATED /\ r.read.wallet_address = NoWallet
    /\ engine.agents["g1"].status = PAUSED

\* C26 as stated: once pause_agent or stop_agent has returned true for an
\* agent, the execution provider executes no strategy action for that
\* agent until activate_agent is called for it again, also when the call
\* arrived while a cycle of the agent was in flight: no cycle of an agent
\* whose status is paused or stopped completes with a chain action made.
C26_NoExecutionAfterPauseOrStop ==
    (ev.kind = "cycle" /\ ~ev.stale /\ ev.invoked /\ ev.result.chain)
    => ev.before.status \notin {PAUSED, STOPPED}

\* C27: stop_agent empties current_positions, sets the status to stopped
\* and returns true also when close_position reported failure for one or
\* more positions: a position whose close was reported as failed is not
\* retained.
C27_FailedCloseIsNotRetained ==
    (ev.kind = "stop" /\ ~ev.stale /\ ev.failed > 0)
    => /\ ev.res = "true"
       /\ active_agents[ev.id].status = STOPPED
       /\ active_agents[ev.id].current_positions = {}

\* stop_agent returned after both of its close_position calls had
\* reported failure
C27_Witness ==
    /\ ev.kind = "stop" /\ ~ev.stale
    /\ ev.pre = PositionIds /\ ev.failed = 2
    /\ ev.table[ev.id].current_positions = PositionIds
    /\ active_agents[ev.id].current_positions = {}

\* C28 as stated: after AgentManager.stop() has been called the loop
\* finishes at most the tick in progress and starts no other tick, also
\* when stop() is called before the loop task has run for the first
\* time: once stop() was called, the loop task does not go from not yet
\* started or from its sleep into a tick.
C28_StopEndsTheLoop ==
    [][(shut.pc # "idle" /\ loop.pc \in {"created", "sleep", "sleep_error"}
          /\ loop' # loop)
       => loop'.pc = "done"]_vars

\* C29: every decision MLInterface produces carries a strictly positive
\* next_check_minutes (1, 5, 15 or 30, and 60 for the safe default) and
\* the fault backoff is 30 minutes, so that after a completed or faulted
\* cycle the next_execution of the state the cycle wrote to is strictly
\* later than the time at which the cycle finished.  (An entry replaced
\* by create_agent during the cycle is not written by the normal update.)
C29_NextExecutionIsLater ==
    /\ \A d \in Decisions \cup DecisionsEmptyMarket
                  \cup DecisionsFailed \cup DecisionsRaised :
          /\ d.next_check_minutes > 0
          /\ d.source = "enhanced" => d.next_check_minutes \in {1, 5, 15, 30}
          /\ d.source = "default" => d.next_check_minutes = 60
    /\ FaultBackoff = 30
    /\ (ev.kind = "cycle" /\ (ev.path = "fault" \/ ~ev.stale))
       => /\ active_agents[ev.id].next_execution > now
          /\ active_agents[ev.id].next_execution =
                now + (IF ev.path = "fault" THEN 30
                       ELSE ev.decision.next_check_minutes)

\* a cycle completed with the shortest delay a decision can carry
C29_Witness ==
    /\ ev.kind = "cycle" /\ ev.path = "normal" /\ ~ev.stale
    /\ ev.decision.next_check_minutes = 1
    /\ active_agents[ev.id].next_execution = now + 1

\* C30 as stated: an agent created through the create_agent endpoint of
\* the agent engine can subsequently be started by its owner: the owner,
\* who goes on sending requests for the agent, gets to a start request
\* that succeeds and leaves the stored status active.
C30_CreatedAgentGetsStarted ==
    \A id \in EngineIds :
        (engine.agents[id] # NoAgent)
        ~> (/\ engine.resp.kind = "http" /\ engine.resp.op = "start"
            /\ engine.resp.id = id /\ engine.resp.status = 200
            /\ engine.agents[id].status = ACTIVE)

\* the owner's start request for an agent created through the endpoint is
\* answered 400 for the missing wallet, after an update request and a
\* stop request of the owner for that agent were accepted
C30_Witness ==
    LET r == engine.resp IN
    /\ r.kind = "http" /\ r.op = "start" /\ r.status = 400
    /\ r.user = r.read.owner_id
    /\ r.read.status = STOPPED /\ r.read.wallet_address = NoWallet
    /\ \E c \in EngineClients :
          engine.req[c].pc = "write" /\ engine.req[c].op = "update"
             /\ engine.req[c].id = r.id

====
